---- MODULE Spec2Model ----
(***************************************************************************)
(* Model of the onboarding relay (elevateandautomate/onboarding).          *)
(*                                                                         *)
(* Two request handlers are modelled:                                      *)
(*   POST /api/check-domain   as written in src/server.js and in           *)
(*                            src/unnamed/part_000 (variable variant),     *)
(*   POST /api/create-slack-channel as written in src/server.js.           *)
(* JavaScript strings are sequences of one-character strings, so that      *)
(* split, join, includes, length, toLowerCase, replace and substring are   *)
(* computed rather than assumed.  Each action is the piece of a handler    *)
(* that runs between two awaits: it consumes the outcome of the pending    *)
(* upstream call and runs up to the next upstream call or the response.    *)
(***************************************************************************)
EXTENDS Integers, Sequences, FiniteSets, TLC

VARIABLES
    variant,       \* which source file's /api/check-domain handler is deployed
    domainName,    \* req.body.domainName of the domain-check request
    dpc,           \* position of the domain-check handler
    registrarCalls,\* number of axios.post calls sent to the registrar
    registrarReply,\* outcome of the registrar call, once the handler resumed
    dres,          \* response of the domain-check request
    gaIn,          \* argument of a direct call of generateAlternatives
    gaOut,         \* its return value
    gaDone,        \* TRUE once generateAlternatives(gaIn) has returned gaOut
    TEAM_MEMBERS,  \* the team roster read from the environment at startup
    channels,      \* the messaging platform's channels: [name, id, listed]
    sreq,          \* per request: the body of POST /api/create-slack-channel
    spc,           \* per request: position of the handler (the pending call)
    channelId,     \* per request: the handler's channelId, 0 while unset
    calls,         \* per request: the upstream calls issued, with their outcome
    sres,          \* per request: the response
    sanIn,         \* argument of a direct evaluation of the name sanitizing
    sanOut,        \* its result
    sanDone,       \* TRUE once sanOut is the sanitized form of sanIn
    femail,        \* req.query.email of the GET /find-user-id request
    fpc,           \* position of the /find-user-id handler
    flookup,       \* outcome of its users.lookupByEmail call
    fres           \* response of the /find-user-id request

domainVars == <<variant, domainName, dpc, registrarCalls, registrarReply, dres>>
genVars == <<gaIn, gaOut, gaDone>>
slackVars == <<TEAM_MEMBERS, channels, sreq, spc, channelId, calls, sres>>
sanVars == <<sanIn, sanOut, sanDone>>
findVars == <<femail, fpc, flookup, fres>>

(***************************************************************************)
(* Bounds of the model.                                                    *)
(***************************************************************************)
MaxLen == 4          \* longest domain string drawn as a request input
MaxGenLen == 5       \* longest string passed directly to generateAlternatives
LongPrefixLength == 78 \* the long channel name drawn has this length plus 4
MaxSanLen == 3        \* longest short string passed to the sanitizing step
MaxEmailLen == 4      \* longest email parameter drawn

(***************************************************************************)
(* JavaScript string primitives on sequences of characters.                *)
(***************************************************************************)
DomainChars == {"a", "."}
GenChars == {"a", "b", "."}

RECURSIVE StringsUpTo(_, _)
StringsUpTo(chars, n) ==
    IF n = 0 THEN {<<>>}
    ELSE LET shorter == StringsUpTo(chars, n - 1)
         IN  shorter \cup {Append(s, c) : s \in shorter, c \in chars}

includes(s, c) == \E i \in 1..Len(s) : s[i] = c

RECURSIVE split(_, _)
split(s, sep) ==
    IF ~includes(s, sep) THEN <<s>>
    ELSE LET i == CHOOSE k \in 1..Len(s) :
                      s[k] = sep /\ \A j \in 1..(k - 1) : s[j] # sep
         IN  <<SubSeq(s, 1, i - 1)>> \o split(SubSeq(s, i + 1, Len(s)), sep)

RECURSIVE join(_, _)
join(parts, sep) ==
    IF Len(parts) = 0 THEN <<>>
    ELSE IF Len(parts) = 1 THEN parts[1]
    ELSE parts[1] \o <<sep>> \o join(Tail(parts), sep)

slice(parts, from, to) == SubSeq(parts, from, to)

\* generateAlternatives keeping only the first label as the name
generateAlternatives_firstLabel(domain) ==
    LET parts == split(domain, ".")
    IN  IF Len(parts) < 2 THEN <<>>
        ELSE LET name == parts[1]
                 ext == parts[Len(parts)]
             IN  << name \o <<"-", "o", "n", "l", "i", "n", "e", ".">> \o ext,
                    name \o <<"-", "w", "e", "b", ".">> \o ext,
                    <<"g", "e", "t", "-">> \o name \o <<".">> \o ext,
                    name \o <<"-", "s", "i", "t", "e", ".">> \o ext >>

(***************************************************************************)
(* generateAlternatives, src/server.js:171-189.                            *)
(***************************************************************************)
generateAlternatives(domain) ==
    LET parts == split(domain, ".")
    IN  IF Len(parts) < 2 THEN <<>>
        ELSE LET name == join(slice(parts, 1, Len(parts) - 1), ".")
                 ext == parts[Len(parts)]
             IN  << name \o <<"-", "o", "n", "l", "i", "n", "e", ".">> \o ext,
                    name \o <<"-", "w", "e", "b", ".">> \o ext,
                    <<"g", "e", "t", "-">> \o name \o <<".">> \o ext,
                    name \o <<"-", "s", "i", "t", "e", ".">> \o ext >>

(***************************************************************************)
(* generateAlternatives, src/unnamed/part_000:137-150.                     *)
(***************************************************************************)
generateAlternatives_part000(domain) ==
    LET parts == split(domain, ".")
    IN  IF Len(parts) < 2 THEN <<>>
        ELSE LET name == join(slice(parts, 1, Len(parts) - 1), ".")
                 ext == parts[Len(parts)]
             IN  << name \o <<"-", "o", "n", "l", "i", "n", "e", ".">> \o ext,
                    name \o <<"-", "w", "e", "b", ".">> \o ext,
                    <<"g", "e", "t", "-">> \o name \o <<".">> \o ext,
                    name \o <<"-", "s", "i", "t", "e", ".">> \o ext >>

Variants == {"server", "part_000"}

generateAlternativesOf(v, domain) ==
    IF v = "server" THEN generateAlternatives(domain)
    ELSE generateAlternatives_part000(domain)

(***************************************************************************)
(* Request bodies of /api/check-domain.  domainName is a JSON value:       *)
(*   undefined  the field is missing,                                      *)
(*   string     val is the string,                                         *)
(*   other      a truthy number, boolean or object: no includes method,    *)
(*   array      val is the array of its (string) elements.                 *)
(***************************************************************************)
Undefined == [kind |-> "undefined", val |-> <<>>]
Str(s) == [kind |-> "string", val |-> s]
OtherValue == [kind |-> "other", val |-> <<>>]
Arr(a) == [kind |-> "array", val |-> a]

DomainInputs ==
    {Undefined, OtherValue}
    \cup {Str(s) : s \in StringsUpTo(DomainChars, MaxLen)}
    \cup {Arr(<< <<".">>, <<"a">>, <<"b">> >>), Arr(<< <<"a", ".", "b">> >>)}

\* !v
falsy(v) == v.kind = "undefined" \/ (v.kind = "string" /\ Len(v.val) = 0)
\* v.includes is a function
hasIncludes(v) == v.kind \in {"string", "array"}
\* v.includes('.'): substring test on a string, element test on an array
includesDot(v) ==
    IF v.kind = "string" THEN includes(v.val, ".")
    ELSE \E i \in 1..Len(v.val) : v.val[i] = <<".">>
\* v.split is a function
hasSplit(v) == v.kind = "string"

(***************************************************************************)
(* Replies of the registrar to one axios.post of the check endpoint.       *)
(* axios resolves on HTTP 2xx with response.data and rejects on a timeout, *)
(* on a connection error and on every non-2xx status, whatever the body.   *)
(*   body       "object" a JSON object, "string" a non-JSON or empty body  *)
(*   status     data.status                                                *)
(*   available  data.available, "absent" when the field is missing         *)
(*   avail      data.response.avail, "absent" when missing                 *)
(*   price      data.response.price, <<>> when missing                     *)
(*   message    data.message, "" when the field is missing                 *)
(*   registration  data.pricing.registration, <<>> when missing            *)
(* Prices are strings, kept as sequences of characters.                    *)
(*   errMessage err.message of the rejection                               *)
(***************************************************************************)
Reply(k, b, st, av, m, p, e) ==
    [kind |-> k, body |-> b, status |-> st, available |-> av,
     message |-> m, registration |-> p, errMessage |-> e,
     avail |-> "absent", price |-> <<>>]

\* the nested shape {status, response: {avail, price}}
NestedReply(st, a, p) ==
    [kind |-> "2xx", body |-> "object", status |-> st, available |-> "absent",
     message |-> "", registration |-> <<>>, errMessage |-> "",
     avail |-> a, price |-> p]

RegistrarReplies ==
    {Reply("2xx", "object", "SUCCESS", av, "", p, "") :
        av \in {"1", "0", "absent"}, p \in {<<>>, <<"9", ".", "7", "3">>}}
    \cup {NestedReply("SUCCESS", a, <<>>) : a \in {"yes", "no"}}
    \cup {Reply("2xx", "object", "ERROR", "absent", m, <<>>, "") :
        m \in {"", "Invalid domain."}}
    \cup {Reply("2xx", "string", "", "absent", "", <<>>, "")}
    \cup {Reply("non2xx", b, "ERROR", "absent", "Invalid API key.", <<>>,
                "Request failed with status code 403") :
        b \in {"object", "string"}}
    \cup {Reply("timeout", "none", "", "absent", "", <<>>,
                "timeout of 10000ms exceeded"),
          Reply("network", "none", "", "absent", "", <<>>, "Network Error")}

NoReply == Reply("none", "none", "", "absent", "", <<>>, "")

TransportFailure(r) == r.kind \in {"non2xx", "timeout", "network"}

(***************************************************************************)
(* Responses.  status 0: no response has been sent.  keys: the fields of   *)
(* the JSON body; a field outside keys is absent from the body.            *)
(***************************************************************************)
NoResponse ==
    [status |-> 0, keys |-> {}, available |-> FALSE, price |-> <<>>,
     suggestions |-> <<>>, error |-> "", details |-> <<>>, reason |-> ""]

\* res.status(400).json({error, details}), server.js:128-131
BadRequest_server ==
    [NoResponse EXCEPT !.status = 400, !.keys = {"error", "details"},
        !.error = "Please provide a valid domain like example.com",
        !.details = <<"Domain must include a TLD (e.g., .com) and be at least 3 characters long">>]

\* res.status(400).json({error, message}), part_000:50-53
BadRequest_part000 ==
    [NoResponse EXCEPT !.status = 400, !.keys = {"error", "message"},
        !.error = "Invalid domain format"]

\* a thrown TypeError: "x.split is not a function" and the like
TypeErrorMessage == "TypeError"

(***************************************************************************)
(* The body of the handler's try block after the registrar call returned,  *)
(* src/server.js:137-155 and src/unnamed/part_000:82-104 (the two differ   *)
(* only in the requestId field, which is not modelled).  The result is     *)
(* either the response sent or the error thrown.                           *)
(***************************************************************************)
\* evaluateSuccess attaching the alternatives whatever the availability
evaluateSuccess_alwaysSuggests(v, d, reply) ==
    LET isAvailable == reply.available = "1"
    IN  IF ~hasSplit(d)
        THEN [threw |-> TRUE, msg |-> <<TypeErrorMessage>>, resp |-> NoResponse]
        ELSE [threw |-> FALSE, msg |-> <<>>,
              resp |-> [NoResponse EXCEPT
                  !.status = 200,
                  !.keys = {"available", "domain", "price", "suggestions"},
                  !.available = isAvailable,
                  !.price = IF reply.registration # <<>>
                            THEN reply.registration ELSE <<"N", "/", "A">>,
                  !.suggestions = generateAlternativesOf(v, d.val)]]

\* evaluateSuccess with the availability test inverted
evaluateSuccess_inverted(v, d, reply) ==
    LET isAvailable == reply.available # "1"
    IN  IF ~isAvailable /\ ~hasSplit(d)
        THEN [threw |-> TRUE, msg |-> <<TypeErrorMessage>>, resp |-> NoResponse]
        ELSE [threw |-> FALSE, msg |-> <<>>,
              resp |-> [NoResponse EXCEPT
                  !.status = 200,
                  !.keys = {"available", "domain", "price", "suggestions"},
                  !.available = isAvailable,
                  !.price = IF reply.registration # <<>>
                            THEN reply.registration ELSE <<"N", "/", "A">>,
                  !.suggestions = IF isAvailable THEN <<>>
                                  ELSE generateAlternativesOf(v, d.val)]]

evaluateSuccess(v, d, reply) ==
    LET isAvailable == reply.available = "1"
    IN  IF ~isAvailable /\ ~hasSplit(d)
        THEN [threw |-> TRUE, msg |-> <<TypeErrorMessage>>, resp |-> NoResponse]
        ELSE [threw |-> FALSE, msg |-> <<>>,
              resp |-> [NoResponse EXCEPT
                  !.status = 200,
                  !.keys = {"available", "domain", "price", "suggestions"},
                  !.available = isAvailable,
                  !.price = IF reply.registration # <<>>
                            THEN reply.registration ELSE <<"N", "/", "A">>,
                  !.suggestions = IF isAvailable THEN <<>>
                                  ELSE generateAlternativesOf(v, d.val)]]

\* evaluateNonSuccess raising the upstream failure as an error
evaluateNonSuccess_throws(v, d, reply) ==
    [threw |-> TRUE,
     msg |-> <<IF reply.body = "object" /\ reply.message # ""
               THEN reply.message ELSE "Domain check failed">>,
     resp |-> NoResponse]

evaluateNonSuccess(v, d, reply) ==
    IF ~hasSplit(d)
    THEN [threw |-> TRUE, msg |-> <<TypeErrorMessage>>, resp |-> NoResponse]
    ELSE [threw |-> FALSE, msg |-> <<>>,
          resp |-> [NoResponse EXCEPT
              !.status = 200,
              !.keys = {"available", "domain", "error", "suggestions"},
              !.available = FALSE,
              !.error = IF reply.body = "object" /\ reply.message # ""
                        THEN reply.message ELSE "Domain check failed",
              !.suggestions = generateAlternativesOf(v, d.val)]]

evaluate(v, d, reply) ==
    IF reply.body = "object" /\ reply.status = "SUCCESS"
    THEN evaluateSuccess(v, d, reply)
    ELSE evaluateNonSuccess(v, d, reply)

(***************************************************************************)
(* The catch blocks.                                                       *)
(*   server.js:156-165   500 {error, details, timestamp}                   *)
(*   part_000:105-133    500 {error, details, possibleCause, suggestions,  *)
(*                       timestamp}; generateAlternatives(domainName) is   *)
(*                       evaluated inside the catch block, so its          *)
(*                       TypeError leaves the handler without a response.  *)
(***************************************************************************)
catch_server(d, msg) ==
    [rejected |-> FALSE,
     resp |-> [NoResponse EXCEPT !.status = 500,
                  !.keys = {"error", "details", "timestamp"},
                  !.error = "Failed to check domain availability.",
                  !.details = msg]]

catch_part000(d, msg) ==
    IF ~hasSplit(d) THEN [rejected |-> TRUE, resp |-> NoResponse]
    ELSE [rejected |-> FALSE,
          resp |-> [NoResponse EXCEPT !.status = 500,
                  !.keys = {"error", "details", "possibleCause",
                            "suggestions", "timestamp"},
                  !.error = "Failed to check domain availability",
                  !.details = msg,
                  !.suggestions = generateAlternatives_part000(d.val)]]

\* checkDomainAvailability rethrows with a prefix, server.js:107
rethrown(v, msg) ==
    IF v = "server" THEN <<"Domain check failed: ", msg>> ELSE <<msg>>

(***************************************************************************)
(* Input validation of the handler.                                        *)
(*   server.js:126     !d || !d.includes('.') || d.length < 3              *)
(*   part_000:49       !d || !d.includes('.')                              *)
(* Evaluated left to right; d.includes(...) on a value without that        *)
(* method throws a TypeError before the try block is entered.              *)
(***************************************************************************)
MinDomainLength == 3

validationThrows(d) == ~falsy(d) /\ ~hasIncludes(d)

invalid_server(d) ==
    falsy(d) \/ ~includesDot(d) \/ Len(d.val) < MinDomainLength

invalid_part000(d) ==
    falsy(d) \/ ~includesDot(d)

invalid(v, d) ==
    IF v = "server" THEN invalid_server(d) ELSE invalid_part000(d)

(***************************************************************************)
(* Handler of POST /api/check-domain up to its first await.                *)
(***************************************************************************)
CheckDomainRequest ==
    /\ dpc = "start"
    /\ IF validationThrows(domainName)
       THEN /\ dpc' = "rejected"
            /\ UNCHANGED <<dres, registrarCalls>>
       ELSE IF invalid(variant, domainName)
       THEN /\ dpc' = "done"
            /\ dres' = (IF variant = "server" THEN BadRequest_server
                        ELSE BadRequest_part000)
            /\ UNCHANGED registrarCalls
       ELSE /\ dpc' = "awaitRegistrar"
            /\ registrarCalls' = registrarCalls + 1
            /\ UNCHANGED dres
    /\ UNCHANGED <<variant, domainName, registrarReply, genVars, slackVars, sanVars, findVars>>

\* CheckDomainResume sending the call once more after a transport failure
CheckDomainResume_retries(r) ==
    /\ dpc = "awaitRegistrar"
    /\ IF TransportFailure(r) /\ registrarCalls < 2
       THEN /\ registrarCalls' = registrarCalls + 1
            /\ UNCHANGED <<dpc, dres>>
       ELSE /\ LET tried == IF TransportFailure(r)
                            THEN [threw |-> TRUE,
                                  msg |-> rethrown(variant, r.errMessage),
                                  resp |-> NoResponse]
                            ELSE evaluate(variant, domainName, r)
                   caught == IF variant = "server"
                             THEN catch_server(domainName, tried.msg)
                             ELSE catch_part000(domainName, tried.msg)
               IN  IF ~tried.threw
                   THEN dres' = tried.resp /\ dpc' = "done"
                   ELSE IF caught.rejected
                   THEN dres' = dres /\ dpc' = "rejected"
                   ELSE dres' = caught.resp /\ dpc' = "done"
            /\ UNCHANGED registrarCalls
    /\ registrarReply' = r
    /\ UNCHANGED <<variant, domainName, genVars, slackVars, sanVars, findVars>>

(***************************************************************************)
(* The handler resumed by the registrar's reply (or by axios' rejection).  *)
(***************************************************************************)
CheckDomainResume(r) ==
    /\ dpc = "awaitRegistrar"
    /\ LET tried == IF TransportFailure(r)
                    THEN [threw |-> TRUE,
                          msg |-> rethrown(variant, r.errMessage),
                          resp |-> NoResponse]
                    ELSE evaluate(variant, domainName, r)
           caught == IF variant = "server"
                     THEN catch_server(domainName, tried.msg)
                     ELSE catch_part000(domainName, tried.msg)
       IN  IF ~tried.threw
           THEN dres' = tried.resp /\ dpc' = "done"
           ELSE IF caught.rejected
           THEN dres' = dres /\ dpc' = "rejected"
           ELSE dres' = caught.resp /\ dpc' = "done"
    /\ registrarReply' = r
    /\ UNCHANGED <<variant, domainName, registrarCalls, genVars, slackVars, sanVars, findVars>>

(***************************************************************************)
(* POST /api/create-slack-channel, src/server.js:328-520.                  *)
(*                                                                         *)
(* Sanitizing of the requested channel name, server.js:350-353.            *)
(***************************************************************************)
UpperCase == <<"A", "B", "C", "D", "E", "F", "G", "H", "I", "J", "K", "L", "M",
               "N", "O", "P", "Q", "R", "S", "T", "U", "V", "W", "X", "Y", "Z">>
LowerCase == <<"a", "b", "c", "d", "e", "f", "g", "h", "i", "j", "k", "l", "m",
               "n", "o", "p", "q", "r", "s", "t", "u", "v", "w", "x", "y", "z">>
Digits == {"0", "1", "2", "3", "4", "5", "6", "7", "8", "9"}

\* the characters matched by [a-z0-9-_]
AllowedChars == {LowerCase[i] : i \in 1..26} \cup Digits \cup {"-", "_"}

toLowerCase(s) ==
    [i \in 1..Len(s) |->
        IF \E k \in 1..26 : UpperCase[k] = s[i]
        THEN LowerCase[CHOOSE k \in 1..26 : UpperCase[k] = s[i]]
        ELSE s[i]]

\* replaceDisallowed replacing spaces only
replaceDisallowed_spacesOnly(s) ==
    [i \in 1..Len(s) |-> IF s[i] = " " THEN "-" ELSE s[i]]

\* s.replace(/[^a-z0-9-_]/g, '-')
replaceDisallowed(s) ==
    [i \in 1..Len(s) |-> IF s[i] \in AllowedChars THEN s[i] ELSE "-"]

MaxChannelNameLength == 80

\* s.substring(0, n)
substring0(s, n) == SubSeq(s, 1, IF Len(s) < n THEN Len(s) ELSE n)

sanitizedChannelName(channelName) ==
    substring0(replaceDisallowed(toLowerCase(channelName)),
               MaxChannelNameLength)

\* `${sanitizedChannelName}-${timestampSuffix}`, server.js:410-411
newChannelName(sanitized, timestampSuffix) ==
    sanitized \o <<"-">> \o timestampSuffix

(***************************************************************************)
(* Requests.  A channel name is a sequence of characters; the other three  *)
(* fields are only tested for truthiness and copied, "" is a missing or    *)
(* empty field and " " a string of white space only.                       *)
(***************************************************************************)
Reqs == {"r1", "r2"}

RECURSIVE Repeat(_, _)
Repeat(c, n) == IF n = 0 THEN <<>> ELSE <<c>> \o Repeat(c, n - 1)

ChannelNameInputs ==
    { <<>>,
      <<"A", "c", "m", "e", " ", "C", "o">>,
      <<"a", "c", "m", "e", "-", "c", "o">>,
      Repeat("x", LongPrefixLength) \o <<"_", "Z", "!", "9">> }

SlackRequests ==
    [channelName : ChannelNameInputs,
     userEmail : {"", "client@example.com"},
     businessName : {"", " ", "Acme Co"},
     clientName : {"", "Al"}]

NoRequest ==
    [channelName |-> <<>>, userEmail |-> "", businessName |-> "",
     clientName |-> ""]

\* Math.floor(Date.now() / 1000): the Unix time in seconds at the retry
ClockSeconds == {1762000042, 1799999999}

DigitChars == <<"0", "1", "2", "3", "4", "5", "6", "7", "8", "9">>

\* n.toString() of a non-negative integer
RECURSIVE toString(_)
toString(n) ==
    IF n < 10 THEN <<DigitChars[n + 1]>>
    ELSE toString(n \div 10) \o <<DigitChars[(n % 10) + 1]>>

\* s.slice(-k)
sliceLast(s, k) == IF Len(s) <= k THEN s ELSE SubSeq(s, Len(s) - k + 1, Len(s))

SuffixLength == 4

\* the suffix taken from the front of the timestamp
timestampSuffix_leading(unixSeconds) ==
    SubSeq(toString(unixSeconds), 1, SuffixLength)

\* Math.floor(Date.now() / 1000).toString().slice(-4), server.js:410
timestampSuffix(unixSeconds) == sliceLast(toString(unixSeconds), SuffixLength)

(***************************************************************************)
(* Upstream calls and their outcomes.  @slack/web-api resolves with the    *)
(* response when it is ok and rejects otherwise: with a platform error     *)
(* (err.data.error is the error code) or with a request error (no data,    *)
(* only err.message).                                                      *)
(***************************************************************************)
Call(op, name, channel, users, text) ==
    [op |-> op, name |-> name, channel |-> channel, users |-> users,
     text |-> text, result |-> "pending", id |-> 0, listing |-> {}]

NoText == [business |-> "", contact |-> "", email |-> ""]

PlatformErrors == {"name_taken", "restricted_action", "users_not_found",
                   "invalid_name_maxlength", "not_in_channel", "invalid_auth"}
RequestErrorMessage == "A request error occurred: ECONNRESET"
Failures == PlatformErrors \cup {RequestErrorMessage}

\* the error object a failed call rejects with
thrown(failure) ==
    [dataError |-> IF failure \in PlatformErrors THEN failure ELSE "",
     message |-> IF failure \in PlatformErrors
                 THEN <<"An API error occurred: ", failure>>
                 ELSE <<failure>>]

\* err.message
messageOf(failure) == thrown(failure).message

\* err.data?.error || err.message || 'unknown error'
slackErrorOf(failure) ==
    LET err == thrown(failure)
    IN  IF err.dataError # "" THEN <<err.dataError>>
        ELSE IF err.message # <<>> THEN err.message
        ELSE <<"unknown error">>

\* every creation error taken for a name conflict
isNameTaken_always(slackError) == TRUE

\* slackError === 'name_taken', server.js:392
isNameTaken(slackError) == slackError = <<"name_taken">>

ClientUserId == "U_CLIENT"

\* a lookup result used without testing that it carries a user
userFound_unchecked(outcome) == outcome \in {"user", "nouser"}

\* userLookup.ok && userLookup.user, server.js:460
userFound(outcome) == outcome = "user"

existingNames == {c.name : c \in channels}

freshId ==
    1 + (IF channels = {} THEN 0
         ELSE CHOOSE m \in {c.id : c \in channels} :
                  \A c \in channels : c.id <= m)

\* the outcomes conversations.create({name}) can have in the current state
CreateOutcomes(name) ==
    IF name \in existingNames THEN {"name_taken"}
    ELSE IF Len(name) > MaxChannelNameLength THEN {"invalid_name_maxlength"}
    ELSE {"ok", "restricted_action", RequestErrorMessage}

\* the private, unarchived channels conversations.list returns
listedChannels == {c \in channels : c.listed}

(***************************************************************************)
(* Bookkeeping of the handler's state.                                     *)
(***************************************************************************)
issue(r, call) == calls' = [calls EXCEPT ![r] = Append(@, call)]

\* the pending call of r returned: record its outcome, then issue next
settle(r, result, id) ==
    [calls[r] EXCEPT ![Len(calls[r])].result = result,
                     ![Len(calls[r])].id = id,
                     ![Len(calls[r])].listing =
                         IF calls[r][Len(calls[r])].op = "conversations.list"
                            /\ result = "ok"
                         THEN listedChannels ELSE {}]

settleOnly(r, result, id) ==
    calls' = [calls EXCEPT ![r] = settle(r, result, id)]

settleAndIssue(r, result, id, call) ==
    calls' = [calls EXCEPT ![r] = Append(settle(r, result, id), call)]

NoSlackResponse ==
    [status |-> 0, success |-> FALSE, channelId |-> 0, channelName |-> <<>>,
     error |-> <<>>, details |-> <<>>]

\* a 400 body whose text names channelName only
slackBadRequest_channelNameOnly ==
    [NoSlackResponse EXCEPT !.status = 400,
        !.error = <<"Please provide ", "channelName">>,
        !.details = <<"Both fields are required to create a Slack channel">>]

\* res.status(400).json(...), server.js:335-338
slackBadRequest ==
    [NoSlackResponse EXCEPT !.status = 400,
        !.error = <<"Please provide both ", "channelName", " and ", "userEmail">>,
        !.details = <<"Both fields are required to create a Slack channel">>]

\* the outer catch, server.js:510-519
slackFailure(message) ==
    [NoSlackResponse EXCEPT !.status = 500,
        !.error = <<"Failed to create Slack channel.">>,
        !.details = message]

\* slackSuccess reading the channel id from a slot shared by all requests,
\* which holds the largest id stored so far
slackSuccess_sharedChannelId(r) ==
    [NoSlackResponse EXCEPT !.status = 200, !.success = TRUE,
        !.channelId = CHOOSE m \in {channelId[q] : q \in Reqs} :
                          \A q \in Reqs : channelId[q] <= m,
        !.channelName = sreq[r].channelName]

\* res.json({success: true, ...}), server.js:503-509
slackSuccess(r) ==
    [NoSlackResponse EXCEPT !.status = 200, !.success = TRUE,
        !.channelId = channelId[r],
        !.channelName = sreq[r].channelName]

respond(r, response) ==
    /\ sres' = [sres EXCEPT ![r] = response]
    /\ spc' = [spc EXCEPT ![r] = "done"]

\* the welcome message, server.js:480-488
welcomeMessage(req) ==
    [business |-> IF req.businessName # "" THEN req.businessName
                  ELSE "Not provided",
     contact |-> IF req.clientName # "" THEN req.clientName
                 ELSE "Not provided",
     email |-> req.userEmail]

lookupCall(r) == Call("users.lookupByEmail", <<sreq[r].userEmail>>, 0, <<>>, NoText)

postCall(r, id) ==
    Call("chat.postMessage", <<>>, id, <<>>, welcomeMessage(sreq[r]))

\* step 2 onwards, entered with the resolved channel id, server.js:433-456
afterChannelResolved(r, result, id) ==
    /\ channelId' = [channelId EXCEPT ![r] = id]
    /\ IF Len(TEAM_MEMBERS) > 0
       THEN /\ settleAndIssue(r, result, id,
                  Call("conversations.invite", <<>>, id, TEAM_MEMBERS, NoText))
            /\ spc' = [spc EXCEPT ![r] = "teamInvite"]
       ELSE /\ settleAndIssue(r, result, id, lookupCall(r))
            /\ spc' = [spc EXCEPT ![r] = "lookup"]
    /\ UNCHANGED sres

(***************************************************************************)
(* The handler, one action per await.                                      *)
(***************************************************************************)
\* a validation that asks for channelName only
missingRequiredField_channelNameOnly(req) == req.channelName = <<>>

\* !channelName || !userEmail, server.js:333
missingRequiredField(req) == req.channelName = <<>> \/ req.userEmail = ""

\* server.js:328-362: validation, sanitizing, auth.test issued
SlackRequest(r) ==
    /\ spc[r] = "start"
    /\ IF missingRequiredField(sreq[r])
       THEN /\ respond(r, slackBadRequest)
            /\ UNCHANGED calls
       ELSE /\ issue(r, Call("auth.test", <<>>, 0, <<>>, NoText))
            /\ spc' = [spc EXCEPT ![r] = "auth"]
            /\ UNCHANGED sres
    /\ UNCHANGED <<TEAM_MEMBERS, channels, sreq, channelId, domainVars, genVars, sanVars, findVars>>

\* server.js:362-380: auth.test returned, conversations.create issued
AuthReturn(r, outcome) ==
    /\ spc[r] = "auth"
    /\ IF outcome = "ok"
       THEN /\ settleAndIssue(r, "ok", 0,
                  Call("conversations.create",
                       sanitizedChannelName(sreq[r].channelName), 0, <<>>, NoText))
            /\ spc' = [spc EXCEPT ![r] = "create"]
            /\ UNCHANGED sres
       ELSE /\ settleOnly(r, outcome, 0)
            /\ respond(r, slackFailure(
                  <<"Slack authentication failed: ">> \o slackErrorOf(outcome)))
    /\ UNCHANGED <<TEAM_MEMBERS, channels, sreq, channelId, domainVars, genVars, sanVars, findVars>>

\* server.js:377-431: the first conversations.create returned
CreateReturn(r, outcome) ==
    /\ spc[r] = "create"
    /\ LET name == sanitizedChannelName(sreq[r].channelName)
       IN  /\ outcome \in CreateOutcomes(name)
           /\ IF outcome = "ok"
              THEN /\ channels' = channels \cup
                          {[name |-> name, id |-> freshId, listed |-> TRUE]}
                   /\ afterChannelResolved(r, "ok", freshId)
              ELSE IF isNameTaken(slackErrorOf(outcome))
              THEN /\ settleAndIssue(r, outcome, 0,
                         Call("conversations.list", <<>>, 0, <<>>, NoText))
                   /\ spc' = [spc EXCEPT ![r] = "list"]
                   /\ UNCHANGED <<channels, channelId, sres>>
              ELSE /\ settleOnly(r, outcome, 0)
                   /\ respond(r, slackFailure(
                         <<"Slack API error: ">> \o slackErrorOf(outcome)))
                   /\ UNCHANGED <<channels, channelId>>
    /\ UNCHANGED <<TEAM_MEMBERS, sreq, domainVars, genVars, sanVars, findVars>>

\* the listing searched for the requested instead of the sanitized name
existingChannel_rawName(r, listing) ==
    {c \in listing : c.name = sreq[r].channelName}

\* listResult.channels.find(channel => channel.name === sanitizedChannelName)
existingChannel(r, listing) ==
    {c \in listing : c.name = sanitizedChannelName(sreq[r].channelName)}

\* server.js:397-425: conversations.list returned
ListReturn(r, outcome, unixSeconds) ==
    /\ spc[r] = "list"
    /\ LET name == sanitizedChannelName(sreq[r].channelName)
           found == existingChannel(r, listedChannels)
       IN  IF outcome # "ok"
           THEN /\ settleOnly(r, outcome, 0)
                /\ respond(r, slackFailure(
                      <<"Could not create or find channel: ">>
                          \o messageOf(outcome)))
                /\ UNCHANGED channelId
           ELSE IF found # {}
           THEN afterChannelResolved(r, "ok", (CHOOSE c \in found : TRUE).id)
           ELSE /\ settleAndIssue(r, "ok", 0,
                      Call("conversations.create",
                           newChannelName(name, timestampSuffix(unixSeconds)),
                           0, <<>>, NoText))
                /\ spc' = [spc EXCEPT ![r] = "recreate"]
                /\ UNCHANGED <<channelId, sres>>
    /\ UNCHANGED <<TEAM_MEMBERS, channels, sreq, domainVars, genVars, sanVars, findVars>>

\* server.js:414-425: the second conversations.create returned
RecreateReturn(r, outcome) ==
    /\ spc[r] = "recreate"
    /\ LET name == calls[r][Len(calls[r])].name
       IN  /\ outcome \in CreateOutcomes(name)
           /\ IF outcome = "ok"
              THEN /\ channels' = channels \cup
                          {[name |-> name, id |-> freshId, listed |-> TRUE]}
                   /\ afterChannelResolved(r, "ok", freshId)
              ELSE /\ settleOnly(r, outcome, 0)
                   /\ respond(r, slackFailure(
                         <<"Could not create or find channel: ">>
                             \o messageOf(outcome)))
                   /\ UNCHANGED <<channels, channelId>>
    /\ UNCHANGED <<TEAM_MEMBERS, sreq, domainVars, genVars, sanVars, findVars>>

\* TeamInviteReturn without the inner try: a failed invite fails the request
TeamInviteReturn_aborts(r, outcome) ==
    /\ spc[r] = "teamInvite"
    /\ IF outcome = "ok"
       THEN /\ settleAndIssue(r, outcome, 0, lookupCall(r))
            /\ spc' = [spc EXCEPT ![r] = "lookup"]
            /\ UNCHANGED sres
       ELSE /\ settleOnly(r, outcome, 0)
            /\ respond(r, slackFailure(messageOf(outcome)))
    /\ UNCHANGED <<TEAM_MEMBERS, channels, sreq, channelId,
                   domainVars, genVars, sanVars, findVars>>

\* server.js:440-458: the team invite returned, users.lookupByEmail issued
TeamInviteReturn(r, outcome) ==
    /\ spc[r] = "teamInvite"
    /\ settleAndIssue(r, outcome, 0, lookupCall(r))
    /\ spc' = [spc EXCEPT ![r] = "lookup"]
    /\ UNCHANGED <<TEAM_MEMBERS, channels, sreq, channelId, sres,
                   domainVars, genVars, sanVars, findVars>>

\* LookupReturn with the welcome post inside the lookup's try block: a
\* rejected lookup skips the post
LookupReturn_skipsPost(r, outcome) ==
    /\ spc[r] = "lookup"
    /\ IF userFound(outcome)
       THEN /\ settleAndIssue(r, outcome, 0,
                  Call("conversations.invite", <<>>, channelId[r],
                       <<ClientUserId>>, NoText))
            /\ spc' = [spc EXCEPT ![r] = "clientInvite"]
            /\ UNCHANGED sres
       ELSE IF outcome \in Failures
       THEN /\ settleOnly(r, outcome, 0)
            /\ respond(r, slackSuccess(r))
       ELSE /\ settleAndIssue(r, outcome, 0, postCall(r, channelId[r]))
            /\ spc' = [spc EXCEPT ![r] = "post"]
            /\ UNCHANGED sres
    /\ UNCHANGED <<TEAM_MEMBERS, channels, sreq, channelId,
                   domainVars, genVars, sanVars, findVars>>

\* server.js:456-495: users.lookupByEmail returned
LookupReturn(r, outcome) ==
    /\ spc[r] = "lookup"
    /\ IF userFound(outcome)
       THEN /\ settleAndIssue(r, outcome, 0,
                  Call("conversations.invite", <<>>, channelId[r],
                       <<ClientUserId>>, NoText))
            /\ spc' = [spc EXCEPT ![r] = "clientInvite"]
       ELSE /\ settleAndIssue(r, outcome, 0, postCall(r, channelId[r]))
            /\ spc' = [spc EXCEPT ![r] = "post"]
    /\ UNCHANGED <<TEAM_MEMBERS, channels, sreq, channelId, sres,
                   domainVars, genVars, sanVars, findVars>>

\* server.js:466-495: the client invite returned, chat.postMessage issued
ClientInviteReturn(r, outcome) ==
    /\ spc[r] = "clientInvite"
    /\ settleAndIssue(r, outcome, 0, postCall(r, channelId[r]))
    /\ spc' = [spc EXCEPT ![r] = "post"]
    /\ UNCHANGED <<TEAM_MEMBERS, channels, sreq, channelId, sres,
                   domainVars, genVars, sanVars, findVars>>

\* a failed welcome post reported as a failure of the request
postResponse_escalates(r, outcome) ==
    IF outcome = "ok" THEN slackSuccess(r)
    ELSE slackFailure(messageOf(outcome))

\* server.js:490-509: the post's failure is caught and logged
postResponse(r, outcome) == slackSuccess(r)

\* server.js:491-509: chat.postMessage returned, the success response
PostReturn(r, outcome) ==
    /\ spc[r] = "post"
    /\ settleOnly(r, outcome, 0)
    /\ respond(r, postResponse(r, outcome))
    /\ UNCHANGED <<TEAM_MEMBERS, channels, sreq, channelId, domainVars, genVars, sanVars, findVars>>

(***************************************************************************)
(* A direct call of generateAlternatives (either variant) on any string.   *)
(***************************************************************************)
Generate ==
    /\ ~gaDone
    /\ gaOut' = generateAlternativesOf(variant, gaIn)
    /\ gaDone' = TRUE
    /\ UNCHANGED <<gaIn, domainVars, slackVars, sanVars, findVars>>

(***************************************************************************)
(* The price-gated availability evaluator.  The specification describes    *)
(* it (Availability Evaluator, optional price-gate mode, observed ceiling  *)
(* 15.00) for one variant of the check-domain handler; that variant is not *)
(* among the source files, so these definitions follow the specification.  *)
(* Prices are compared in cents.                                           *)
(***************************************************************************)
PriceCeilingCents == 1500

digitValue(c) == CHOOSE i \in 0..9 : DigitChars[i + 1] = c

RECURSIVE parseDigits(_)
parseDigits(s) ==
    IF s = <<>> THEN 0
    ELSE parseDigits(SubSeq(s, 1, Len(s) - 1)) * 10 + digitValue(s[Len(s)])

\* a decimal: digits, optionally '.' and digits; more: a non-zero digit
\* beyond the cents
parseDecimal(text) ==
    LET dots  == {i \in 1..Len(text) : text[i] = "."}
        dot   == IF dots = {} THEN Len(text) + 1
                 ELSE CHOOSE i \in dots : \A j \in dots : i <= j
        whole == SubSeq(text, 1, dot - 1)
        frac  == SubSeq(text, dot + 1, Len(text))
        ok    == /\ Cardinality(dots) <= 1
                 /\ whole # <<>>
                 /\ dots # {} => frac # <<>>
                 /\ \A i \in 1..Len(text) : i \notin dots => text[i] \in Digits
        tenths     == IF Len(frac) >= 1 THEN digitValue(frac[1]) ELSE 0
        hundredths == IF Len(frac) >= 2 THEN digitValue(frac[2]) ELSE 0
    IN  IF ~ok THEN [ok |-> FALSE, cents |-> 0, more |-> FALSE]
        ELSE [ok |-> TRUE,
              cents |-> parseDigits(whole) * 100 + tenths * 10 + hundredths,
              more |-> \E i \in 3..Len(frac) : frac[i] # "0"]

exceedsCeiling(parsed) ==
    \/ parsed.cents > PriceCeilingCents
    \/ parsed.cents = PriceCeilingCents /\ parsed.more

\* the two upstream shapes: flat available "1", nested response.avail "yes"
normalizedAvailable(reply) == reply.available = "1" \/ reply.avail = "yes"

\* pricing.registration, or response.price
priceText(reply) ==
    IF reply.registration # <<>> THEN reply.registration ELSE reply.price

\* evaluateGated treating a price it cannot parse as meeting the ceiling
evaluateGated_trustsUnparseable(gate, d, reply) ==
    LET isAvailable == normalizedAvailable(reply)
        parsed      == parseDecimal(priceText(reply))
        gated       == gate /\ isAvailable /\ parsed.ok /\ exceedsCeiling(parsed)
        available   == isAvailable /\ ~gated
    IN  [NoResponse EXCEPT
            !.status = 200,
            !.keys = {"available", "domain", "price", "suggestions"}
                        \cup (IF gated THEN {"reason"} ELSE {}),
            !.available = available,
            !.price = IF priceText(reply) # <<>>
                      THEN priceText(reply) ELSE <<"N", "/", "A">>,
            !.suggestions = IF available THEN <<>>
                            ELSE generateAlternatives(d.val),
            !.reason = IF gated THEN "price" ELSE ""]

evaluateGated(gate, d, reply) ==
    LET isAvailable == normalizedAvailable(reply)
        parsed      == parseDecimal(priceText(reply))
        gated       == gate /\ isAvailable
                            /\ (~parsed.ok \/ exceedsCeiling(parsed))
        available   == isAvailable /\ ~gated
    IN  [NoResponse EXCEPT
            !.status = 200,
            !.keys = {"available", "domain", "price", "suggestions"}
                        \cup (IF gated THEN {"reason"} ELSE {}),
            !.available = available,
            !.price = IF priceText(reply) # <<>>
                      THEN priceText(reply) ELSE <<"N", "/", "A">>,
            !.suggestions = IF available THEN <<>>
                            ELSE generateAlternatives(d.val),
            !.reason = IF gated THEN "price" ELSE ""]

PriceGateVariants == {"priceGate", "noPriceGate"}

\* the price-gated handler up to the registrar call
GatedCheckRequest ==
    /\ dpc = "start"
    /\ IF invalid_server(domainName)
       THEN /\ dpc' = "done"
            /\ dres' = BadRequest_server
            /\ UNCHANGED registrarCalls
       ELSE /\ dpc' = "awaitRegistrar"
            /\ registrarCalls' = registrarCalls + 1
            /\ UNCHANGED dres
    /\ UNCHANGED <<variant, domainName, registrarReply, genVars, slackVars, sanVars, findVars>>

\* the price-gated handler resumed by the registrar's reply
GatedCheckResume(r) ==
    /\ dpc = "awaitRegistrar"
    /\ dres' = IF TransportFailure(r)
               THEN catch_part000(domainName, <<r.errMessage>>).resp
               ELSE IF r.body = "object" /\ r.status = "SUCCESS"
               THEN evaluateGated(variant = "priceGate", domainName, r)
               ELSE evaluateNonSuccess("server", domainName, r).resp
    /\ dpc' = "done"
    /\ registrarReply' = r
    /\ UNCHANGED <<variant, domainName, registrarCalls, genVars, slackVars, sanVars, findVars>>

(***************************************************************************)
(* The sanitizing step of the channel handler applied to any string,       *)
(* server.js:350-353.                                                      *)
(***************************************************************************)
Sanitize ==
    /\ ~sanDone
    /\ sanOut' = sanitizedChannelName(sanIn)
    /\ sanDone' = TRUE
    /\ UNCHANGED <<sanIn, domainVars, genVars, slackVars, findVars>>

(***************************************************************************)
(* Handler of GET /find-user-id, server.js:525-574.  femail is the email   *)
(* query parameter (<<>>: missing or empty), flookup the outcome of        *)
(* users.lookupByEmail, fres the response: its HTTP status and the         *)
(* status, message, error and user.id fields of its body.                  *)
(***************************************************************************)
NoFindResponse ==
    [status |-> 0, bodyStatus |-> "", message |-> "", error |-> <<>>,
     userId |-> ""]

\* server.js:530-535
findBadRequest ==
    [NoFindResponse EXCEPT !.status = 400,
        !.error = <<"Missing email parameter">>]

\* server.js:545-554
findSuccess ==
    [NoFindResponse EXCEPT !.status = 200, !.bodyStatus = "success",
        !.userId = ClientUserId]

\* server.js:556-560
findNotFound ==
    [NoFindResponse EXCEPT !.status = 404, !.bodyStatus = "error",
        !.message = "User not found"]

\* the catch block, server.js:562-572
findFailure(failure) ==
    [NoFindResponse EXCEPT !.status = 500, !.bodyStatus = "error",
        !.message = "Failed to look up user",
        !.error = slackErrorOf(failure)]

\* server.js:530-541: validation, then users.lookupByEmail is called
FindUserRequest ==
    /\ fpc = "start"
    /\ IF femail = <<>>
       THEN fpc' = "done" /\ fres' = findBadRequest
       ELSE fpc' = "awaitLookup" /\ fres' = fres
    /\ UNCHANGED <<femail, flookup, domainVars, genVars, slackVars, sanVars>>

\* server.js:543-573: the lookup returned or rejected
FindUserReturn(outcome) ==
    /\ fpc = "awaitLookup"
    /\ flookup' = outcome
    /\ fres' = IF outcome \in Failures THEN findFailure(outcome)
               ELSE IF userFound(outcome) THEN findSuccess
               ELSE findNotFound
    /\ fpc' = "done"
    /\ UNCHANGED <<femail, domainVars, genVars, slackVars, sanVars>>

(***************************************************************************)
(* The /api/create-slack-channel handler of src/unnamed/part_003.  Its     *)
(* validation, sanitizing and auth.test precheck are those of server.js    *)
(* (part_003:324-366), so SlackRequest and AuthReturn serve both.  The     *)
(* creation step differs: channelResult is a const of the inner try block  *)
(* (part_003:371), and part_003:387 reads it outside that block, which     *)
(* throws a ReferenceError into the outer catch (part_003:448-456).  The   *)
(* steps after line 387 are therefore never reached.                       *)
(***************************************************************************)
ReferenceErrorMessage == "channelResult is not defined"

\* part_003:368-387 and 448-456: conversations.create returned
CreateReturn_part003(r, outcome) ==
    /\ spc[r] = "create"
    /\ LET name == sanitizedChannelName(sreq[r].channelName)
       IN  /\ outcome \in CreateOutcomes(name)
           /\ IF outcome = "ok"
              THEN /\ channels' = channels \cup
                          {[name |-> name, id |-> freshId, listed |-> TRUE]}
                   /\ settleOnly(r, "ok", freshId)
                   /\ respond(r, slackFailure(<<ReferenceErrorMessage>>))
              ELSE /\ settleOnly(r, outcome, 0)
                   /\ respond(r, slackFailure(
                         <<"Slack API error: ">> \o slackErrorOf(outcome)))
                   /\ UNCHANGED channels
    /\ UNCHANGED <<TEAM_MEMBERS, sreq, channelId, domainVars, genVars, sanVars, findVars>>

(***************************************************************************)
(* getOrCreateChannel of src/unnamed/part_000:333-349, one action per      *)
(* await.  An invocation r has the argument sreq[r].channelName, the       *)
(* position spc[r] ("gocStart", "gocList", "gocCreate", then "returned" or *)
(* "thrown"), the call log calls[r] and the returned id channelId[r].      *)
(***************************************************************************)
\* list.channels.find(c => c.name === channelName), part_000:336
existing(r, listing) == {c \in listing : c.name = sreq[r].channelName}

\* part_000:335: conversations.list is called
GetOrCreateChannel(r) ==
    /\ spc[r] = "gocStart"
    /\ issue(r, Call("conversations.list", <<>>, 0, <<>>, NoText))
    /\ spc' = [spc EXCEPT ![r] = "gocList"]
    /\ UNCHANGED <<TEAM_MEMBERS, channels, sreq, channelId, sres,
                   domainVars, genVars, sanVars, findVars>>

\* part_000:335-343: the listing returned
GetOrCreateListReturn(r, outcome) ==
    /\ spc[r] = "gocList"
    /\ LET found == existing(r, listedChannels)
       IN  IF outcome # "ok"
           THEN /\ settleOnly(r, outcome, 0)
                /\ spc' = [spc EXCEPT ![r] = "thrown"]
                /\ UNCHANGED channelId
           ELSE IF found # {}
           THEN /\ settleOnly(r, "ok", (CHOOSE c \in found : TRUE).id)
                /\ channelId' = [channelId EXCEPT
                                    ![r] = (CHOOSE c \in found : TRUE).id]
                /\ spc' = [spc EXCEPT ![r] = "returned"]
           ELSE /\ settleAndIssue(r, "ok", 0,
                      Call("conversations.create", sreq[r].channelName,
                           0, <<>>, NoText))
                /\ spc' = [spc EXCEPT ![r] = "gocCreate"]
                /\ UNCHANGED channelId
    /\ UNCHANGED <<TEAM_MEMBERS, channels, sreq, sres,
                   domainVars, genVars, sanVars, findVars>>

\* part_000:343-348: conversations.create returned
GetOrCreateCreateReturn(r, outcome) ==
    /\ spc[r] = "gocCreate"
    /\ outcome \in CreateOutcomes(sreq[r].channelName)
    /\ IF outcome = "ok"
       THEN /\ channels' = channels \cup
                   {[name |-> sreq[r].channelName, id |-> freshId,
                     listed |-> TRUE]}
            /\ settleOnly(r, "ok", freshId)
            /\ channelId' = [channelId EXCEPT ![r] = freshId]
            /\ spc' = [spc EXCEPT ![r] = "returned"]
       ELSE /\ settleOnly(r, outcome, 0)
            /\ spc' = [spc EXCEPT ![r] = "thrown"]
            /\ UNCHANGED <<channels, channelId>>
    /\ UNCHANGED <<TEAM_MEMBERS, sreq, sres, domainVars, genVars, sanVars, findVars>>

(***************************************************************************)
(* Specifications.                                                         *)
(***************************************************************************)
vars == <<domainVars, genVars, slackVars, sanVars, findVars>>

DomainIdle ==
    /\ domainName = Undefined
    /\ dpc = "idle"
    /\ registrarCalls = 0
    /\ registrarReply = NoReply
    /\ dres = NoResponse

GenIdle ==
    /\ gaIn = <<>>
    /\ gaOut = <<>>
    /\ gaDone = TRUE

SanIdle ==
    /\ sanIn = <<>>
    /\ sanOut = <<>>
    /\ sanDone = TRUE

FindIdle ==
    /\ femail = <<>>
    /\ fpc = "idle"
    /\ flookup = "none"
    /\ fres = NoFindResponse

SlackIdle ==
    /\ TEAM_MEMBERS = <<>>
    /\ channels = {}
    /\ sreq = [r \in Reqs |-> NoRequest]
    /\ spc = [r \in Reqs |-> "idle"]
    /\ channelId = [r \in Reqs |-> 0]
    /\ calls = [r \in Reqs |-> <<>>]
    /\ sres = [r \in Reqs |-> NoSlackResponse]

\* one /api/check-domain request against either variant of the handler
Init ==
    /\ variant \in Variants
    /\ domainName \in DomainInputs
    /\ dpc = "start"
    /\ registrarCalls = 0
    /\ registrarReply = NoReply
    /\ dres = NoResponse
    /\ GenIdle
    /\ SlackIdle
    /\ SanIdle
    /\ FindIdle

Next ==
    \/ CheckDomainRequest
    \/ \E r \in RegistrarReplies : CheckDomainResume(r)

Spec == Init /\ [][Next]_vars

\* one call of generateAlternatives on an arbitrary string
InitGen ==
    /\ variant \in Variants
    /\ DomainIdle
    /\ SlackIdle
    /\ SanIdle
    /\ FindIdle
    /\ gaIn \in StringsUpTo(GenChars, MaxGenLen)
    /\ gaOut = <<>>
    /\ gaDone = FALSE

NextGen == Generate

SpecGen == InitGen /\ [][NextGen]_vars

(***************************************************************************)
(* One /api/create-slack-channel request handled by server.js.  The        *)
(* platform may already hold a channel with the sanitized name (listed or  *)
(* not by conversations.list) and one with a suffixed name.                *)
(***************************************************************************)
TeamRosters == { <<>>, <<"U08P11AGCMD", "U08PKKUC4UB">> }

InitialChannels(req) ==
    LET name == sanitizedChannelName(req.channelName)
        taken == {{}} \cup {{[name |-> name, id |-> 1, listed |-> l]} :
                                l \in BOOLEAN}
        suffixed == {{}, {[name |-> newChannelName(name, <<"0", "0", "4", "2">>),
                           id |-> 2, listed |-> FALSE]}}
    IN  {t \cup x : t \in taken, x \in suffixed}

InitSlack ==
    /\ variant = "server"
    /\ DomainIdle
    /\ GenIdle
    /\ SanIdle
    /\ FindIdle
    /\ TEAM_MEMBERS \in TeamRosters
    /\ \E req \in SlackRequests :
          /\ sreq = [r \in Reqs |-> IF r = "r1" THEN req ELSE NoRequest]
          /\ channels \in InitialChannels(req)
    /\ spc = [r \in Reqs |-> IF r = "r1" THEN "start" ELSE "idle"]
    /\ channelId = [r \in Reqs |-> 0]
    /\ calls = [r \in Reqs |-> <<>>]
    /\ sres = [r \in Reqs |-> NoSlackResponse]

CallOutcomes == {"ok"} \cup Failures
LookupOutcomes == {"user", "nouser", "users_not_found", RequestErrorMessage}

NextSlack ==
    \E r \in Reqs :
        \/ SlackRequest(r)
        \/ \E o \in {"ok", "invalid_auth", RequestErrorMessage} : AuthReturn(r, o)
        \/ \E o \in CallOutcomes : CreateReturn(r, o)
        \/ \E o \in {"ok", RequestErrorMessage}, t \in ClockSeconds :
              ListReturn(r, o, t)
        \/ \E o \in CallOutcomes : RecreateReturn(r, o)
        \/ \E o \in {"ok", "not_in_channel"} : TeamInviteReturn(r, o)
        \/ \E o \in LookupOutcomes : LookupReturn(r, o)
        \/ \E o \in {"ok", "not_in_channel"} : ClientInviteReturn(r, o)
        \/ \E o \in {"ok", "not_in_channel"} : PostReturn(r, o)

SpecSlack == InitSlack /\ [][NextSlack]_vars

\* two requests handled concurrently: their handlers interleave at every
\* await; the second asks for the first's channel name or for another one
ConcurrentNames ==
    { <<"a", "c", "m", "e", "-", "c", "o">>, <<"b">> }

InitSlackConc ==
    /\ variant = "server"
    /\ DomainIdle
    /\ GenIdle
    /\ SanIdle
    /\ FindIdle
    /\ TEAM_MEMBERS \in TeamRosters
    /\ \E n \in ConcurrentNames, e \in {"", "client@example.com"} :
          sreq = [r \in Reqs |->
                    [channelName |-> IF r = "r1"
                                     THEN <<"A", "c", "m", "e", " ", "C", "o">>
                                     ELSE n,
                     userEmail |-> IF r = "r1" THEN "client@example.com" ELSE e,
                     businessName |-> "Acme Co",
                     clientName |-> ""]]
    /\ channels \in {{}, {[name |-> <<"a", "c", "m", "e", "-", "c", "o">>,
                            id |-> 1, listed |-> FALSE]}}
    /\ spc = [r \in Reqs |-> "start"]
    /\ channelId = [r \in Reqs |-> 0]
    /\ calls = [r \in Reqs |-> <<>>]
    /\ sres = [r \in Reqs |-> NoSlackResponse]

SpecSlackConc == InitSlackConc /\ [][NextSlack]_vars

\* one request to the price-gated variant, with the gate on or off
PriceInputs ==
    {<<"2", "0", ".", "0", "0">>,
     <<"1", "5", ".", "0", "0">>,
     <<"1", "5", ".", "0", "1">>,
     <<"1", "4", ".", "9", "9">>,
     <<"9", ".", "7", "3">>,
     <<"1", "6">>,
     <<"1", "5">>,
     <<"N", "/", "A">>,
     <<>>,
     <<"a", "b", "c">>,
     <<"1", ".", "5", ".", "0">>,
     <<"1", "5", ".", "0", "0", "1">>,
     <<"1", "5", ".", "0", "0", "0">>,
     <<"$", "9", ".", "9", "9">>,
     <<"9", ".">>,
     <<"0", ".", "5">>}

GatedReplies ==
    {Reply("2xx", "object", "SUCCESS", av, "", p, "") :
        av \in {"1", "0"}, p \in PriceInputs}
    \cup {NestedReply("SUCCESS", a, p) : a \in {"yes", "no"}, p \in PriceInputs}
    \cup {Reply("2xx", "object", "ERROR", "absent", "Invalid domain.", <<>>, ""),
          Reply("timeout", "none", "", "absent", "", <<>>,
                "timeout of 10000ms exceeded")}

InitPriceGate ==
    /\ variant \in PriceGateVariants
    /\ domainName \in {d \in DomainInputs : d.kind = "string"}
    /\ dpc = "start"
    /\ registrarCalls = 0
    /\ registrarReply = NoReply
    /\ dres = NoResponse
    /\ GenIdle
    /\ SlackIdle
    /\ SanIdle
    /\ FindIdle

NextPriceGate ==
    \/ GatedCheckRequest
    \/ \E r \in GatedReplies : GatedCheckResume(r)

SpecPriceGate == InitPriceGate /\ [][NextPriceGate]_vars

\* one request to the part_003 variant of /api/create-slack-channel
InitSlack003 ==
    /\ variant = "part003"
    /\ DomainIdle
    /\ GenIdle
    /\ SanIdle
    /\ FindIdle
    /\ TEAM_MEMBERS \in TeamRosters
    /\ \E req \in SlackRequests :
          /\ sreq = [r \in Reqs |-> IF r = "r1" THEN req ELSE NoRequest]
          /\ channels \in InitialChannels(req)
    /\ spc = [r \in Reqs |-> IF r = "r1" THEN "start" ELSE "idle"]
    /\ channelId = [r \in Reqs |-> 0]
    /\ calls = [r \in Reqs |-> <<>>]
    /\ sres = [r \in Reqs |-> NoSlackResponse]

NextSlack003 ==
    \E r \in Reqs :
        \/ SlackRequest(r)
        \/ \E o \in {"ok", "invalid_auth", RequestErrorMessage} : AuthReturn(r, o)
        \/ \E o \in CallOutcomes : CreateReturn_part003(r, o)

SpecSlack003 == InitSlack003 /\ [][NextSlack003]_vars

\* two concurrent invocations of getOrCreateChannel, for the same name or
\* for different ones, the name being free, listed or taken but not listed
GetOrCreateNames == { <<"a", "c", "m", "e", "-", "a", "l">>, <<"b">> }

InitGetOrCreate ==
    /\ variant = "part000"
    /\ DomainIdle
    /\ GenIdle
    /\ SanIdle
    /\ FindIdle
    /\ TEAM_MEMBERS \in TeamRosters
    /\ \E n \in GetOrCreateNames :
          sreq = [r \in Reqs |->
                    [NoRequest EXCEPT
                        !.channelName = IF r = "r1"
                                        THEN <<"a", "c", "m", "e", "-", "a", "l">>
                                        ELSE n]]
    /\ channels \in {{}} \cup
          {{[name |-> <<"a", "c", "m", "e", "-", "a", "l">>, id |-> 1,
             listed |-> l]} : l \in BOOLEAN}
    /\ spc = [r \in Reqs |-> "gocStart"]
    /\ channelId = [r \in Reqs |-> 0]
    /\ calls = [r \in Reqs |-> <<>>]
    /\ sres = [r \in Reqs |-> NoSlackResponse]

NextGetOrCreate ==
    \E r \in Reqs :
        \/ GetOrCreateChannel(r)
        \/ \E o \in {"ok", RequestErrorMessage} : GetOrCreateListReturn(r, o)
        \/ \E o \in CallOutcomes : GetOrCreateCreateReturn(r, o)

SpecGetOrCreate == InitGetOrCreate /\ [][NextGetOrCreate]_vars

\* one application of the sanitizing step to an arbitrary channel name,
\* short or longer than the platform limit
SanChars == {"A", "z", " ", "_", "-", "9", "!"}

SanInputs ==
    LET short == StringsUpTo(SanChars, MaxSanLen)
    IN  short \cup {Repeat("Q", LongPrefixLength) \o t : t \in short}

InitSanitize ==
    /\ variant = "server"
    /\ DomainIdle
    /\ GenIdle
    /\ SlackIdle
    /\ FindIdle
    /\ sanIn \in SanInputs
    /\ sanOut = <<>>
    /\ sanDone = FALSE

NextSanitize == Sanitize

SpecSanitize == InitSanitize /\ [][NextSanitize]_vars

\* one GET /find-user-id request
FindEmailChars == {"a", "@", "."}

InitFindUser ==
    /\ variant = "server"
    /\ DomainIdle
    /\ GenIdle
    /\ SlackIdle
    /\ SanIdle
    /\ femail \in StringsUpTo(FindEmailChars, MaxEmailLen)
    /\ fpc = "start"
    /\ flookup = "none"
    /\ fres = NoFindResponse

NextFindUser ==
    \/ FindUserRequest
    \/ \E o \in LookupOutcomes : FindUserReturn(o)

SpecFindUser == InitFindUser /\ [][NextFindUser]_vars

(***************************************************************************)
(* Reference definitions used by the properties.                           *)
(***************************************************************************)
lastIndexOf(s, c) ==
    CHOOSE k \in 1..Len(s) : s[k] = c /\ \A j \in (k + 1)..Len(s) : s[j] # c

\* the four alternatives, from the text before and after the last '.'
ReferenceAlternatives(d) ==
    IF ~includes(d, ".") THEN <<>>
    ELSE LET i == lastIndexOf(d, ".")
             name == SubSeq(d, 1, i - 1)
             ext == SubSeq(d, i + 1, Len(d))
         IN  << name \o <<"-", "o", "n", "l", "i", "n", "e">> \o <<".">> \o ext,
                name \o <<"-", "w", "e", "b">> \o <<".">> \o ext,
                <<"g", "e", "t", "-">> \o name \o <<".">> \o ext,
                name \o <<"-", "s", "i", "t", "e">> \o <<".">> \o ext >>

IsText(d) == d.kind \in {"undefined", "string"}

(***************************************************************************)
(* C1: a request whose domainName is missing or empty, has no '.', or is   *)
(* shorter than 3 characters is answered 400 and no registrar call is      *)
(* made, in both variants of the handler.                                  *)
(***************************************************************************)
C1_InvalidInput ==
    /\ IsText(domainName)
    /\ \/ falsy(domainName)
       \/ ~includes(domainName.val, ".")
       \/ Len(domainName.val) < 3

C1_InvalidDomainRejectedWithoutCall ==
    (C1_InvalidInput /\ dpc # "start")
        => (dres.status = 400 /\ registrarCalls = 0)

(***************************************************************************)
(* C2: when the registrar call fails at transport level the response is a  *)
(* 500 whose body carries a non-empty suggestions list.                    *)
(***************************************************************************)
C2_TransportFailureHasSuggestions ==
    (domainName.kind = "string" /\ TransportFailure(registrarReply))
        => /\ dres.status = 500
           /\ "suggestions" \in dres.keys
           /\ Len(dres.suggestions) > 0

(***************************************************************************)
(* C3: in every non-error response available = true implies an empty       *)
(* suggestions list, and upstream SUCCESS with available "1" yields        *)
(* available = true with suggestions = [].                                 *)
(***************************************************************************)
UpstreamSuccess ==
    /\ registrarReply.kind = "2xx"
    /\ registrarReply.body = "object"
    /\ registrarReply.status = "SUCCESS"

C3_AvailableHasNoSuggestions ==
    /\ (dres.status = 200 /\ dres.available) => dres.suggestions = <<>>
    /\ (UpstreamSuccess /\ registrarReply.available = "1")
          => /\ dres.status = 200
             /\ dres.available
             /\ "suggestions" \in dres.keys
             /\ dres.suggestions = <<>>

C3_Witness ==
    /\ UpstreamSuccess
    /\ registrarReply.available = "1"
    /\ dpc = "done"
    /\ dres.available

(***************************************************************************)
(* C4: upstream SUCCESS with a non-affirmative availability flag yields    *)
(* available = false and the four alternatives of the requested domain,    *)
(* in order (requests whose domainName is a string).                       *)
(***************************************************************************)
C4_UnavailableHasAlternatives ==
    (UpstreamSuccess /\ registrarReply.available # "1"
        /\ registrarReply.avail # "yes"
        /\ domainName.kind = "string")
        => /\ dres.status = 200
           /\ ~dres.available
           /\ "suggestions" \in dres.keys
           /\ Len(dres.suggestions) = 4
           /\ dres.suggestions = ReferenceAlternatives(domainName.val)

C4_Witness ==
    /\ UpstreamSuccess
    /\ registrarReply.available = "0"
    /\ domainName = Str(<<"a", ".", "a">>)
    /\ dres.suggestions[3] = <<"g", "e", "t", "-", "a", ".", "a">>

(***************************************************************************)
(* C5: a reply delivered with a structured body whose status is not        *)
(* SUCCESS is answered with a normal response: available = false, the      *)
(* upstream message (or 'Domain check failed'), and the alternatives;      *)
(* never a 500 (requests whose domainName is a string).                    *)
(***************************************************************************)
UpstreamFailureStatus ==
    /\ registrarReply.kind = "2xx"
    /\ registrarReply.body = "object"
    /\ registrarReply.status # "SUCCESS"

C6_GenerateAlternativesMatchesReference ==
    gaDone =>
        /\ gaOut = ReferenceAlternatives(gaIn)
        /\ Len(gaOut) = (IF Len(split(gaIn, ".")) < 2 THEN 0 ELSE 4)

C6_Witness ==
    /\ gaDone
    /\ gaIn = <<"a", ".", "b", ".", "a">>
    /\ gaOut[1] = <<"a", ".", "b", "-", "o", "n", "l", "i", "n", "e", ".", "a">>

(***************************************************************************)
(* Reading the call log of a request.                                      *)
(***************************************************************************)
callsOf(r, op) == {i \in 1..Len(calls[r]) : calls[r][i].op = op}

firstCreate(r) ==
    calls[r][CHOOSE i \in callsOf(r, "conversations.create") :
                 \A j \in callsOf(r, "conversations.create") : i <= j]

clientInvites(r) ==
    {i \in callsOf(r, "conversations.invite") :
        calls[r][i].users = <<ClientUserId>>}

teamInvites(r) ==
    {i \in callsOf(r, "conversations.invite") :
        calls[r][i].users = TEAM_MEMBERS}

\* the channel ids the platform handed to the request
resolvedIds(r) ==
    {calls[r][i].id : i \in {j \in callsOf(r, "conversations.create")
                                 \cup callsOf(r, "conversations.list") :
                             calls[r][j].id # 0}}

bestEffortCalls(r) ==
    callsOf(r, "conversations.invite") \cup callsOf(r, "users.lookupByEmail")
        \cup callsOf(r, "chat.postMessage")

(***************************************************************************)
(* C7: when the first creation fails with name_taken and the listing       *)
(* contains a channel with the sanitized name, the request succeeds with   *)
(* that channel's id and issues no second creation call.                   *)
(***************************************************************************)
listingMatches(r) ==
    {c \in UNION {calls[r][i].listing : i \in callsOf(r, "conversations.list")} :
        c.name = sanitizedChannelName(sreq[r].channelName)}

C7_NameTakenAndListed(r) ==
    /\ callsOf(r, "conversations.create") # {}
    /\ firstCreate(r).result = "name_taken"
    /\ listingMatches(r) # {}

C7_ExistingChannelReused ==
    \A r \in Reqs :
        C7_NameTakenAndListed(r) =>
            /\ Cardinality(callsOf(r, "conversations.create")) = 1
            /\ channelId[r] \in {c.id : c \in listingMatches(r)}
            /\ spc[r] = "done" =>
                  /\ sres[r].status = 200
                  /\ sres[r].success
                  /\ sres[r].channelId \in {c.id : c \in listingMatches(r)}

C7_Witness ==
    /\ C7_NameTakenAndListed("r1")
    /\ spc["r1"] = "done"
    /\ sres["r1"].channelId = 1
    /\ Cardinality(channels) = 1

(***************************************************************************)
(* C8: once the channel is resolved, no failure of the team invite, the    *)
(* client lookup, the client invite or the welcome post changes the        *)
(* outcome: the response is success = true with the resolved channel id.   *)
(***************************************************************************)
C8_BestEffortFailuresDoNotFail ==
    \A r \in Reqs :
        (resolvedIds(r) # {} /\ spc[r] = "done") =>
            /\ sres[r].status = 200
            /\ sres[r].success
            /\ sres[r].channelId \in resolvedIds(r)
            /\ sres[r].channelId = channelId[r]

C8_Witness ==
    /\ spc["r1"] = "done"
    /\ sres["r1"].status = 200
    /\ sres["r1"].channelId # 0
    /\ teamInvites("r1") # {}
    /\ clientInvites("r1") # {}
    /\ \A i \in bestEffortCalls("r1") :
          calls["r1"][i].op # "users.lookupByEmail"
              => calls["r1"][i].result = "not_in_channel"

(***************************************************************************)
(* C9: when the client email resolves to no user (the lookup returns no    *)
(* user or fails with users_not_found) the request still succeeds with     *)
(* the channel id and issues no client invite; a client invite is only     *)
(* ever issued right after a lookup that returned a user.                  *)
(***************************************************************************)
C9_UnknownClient(r) ==
    \E i \in callsOf(r, "users.lookupByEmail") :
        calls[r][i].result \in {"nouser", "users_not_found"}

C9_UnknownClientNotInvited ==
    \A r \in Reqs :
        /\ C9_UnknownClient(r) =>
              /\ clientInvites(r) = {}
              /\ spc[r] \in {"post", "done"}
              /\ spc[r] = "done" =>
                    /\ sres[r].status = 200
                    /\ sres[r].success
                    /\ sres[r].channelId # 0
                    /\ sres[r].channelId \in resolvedIds(r)
        /\ \A i \in clientInvites(r) :
              /\ i > 1
              /\ calls[r][i - 1].op = "users.lookupByEmail"
              /\ calls[r][i - 1].result = "user"

C9_Witness ==
    /\ spc["r1"] = "done"
    /\ \E i \in callsOf("r1", "users.lookupByEmail") :
          calls["r1"][i].result = "users_not_found"
    /\ sres["r1"].success
    /\ clientInvites("r1") = {}

(***************************************************************************)
(* C10: when channel creation fails with an error other than name_taken    *)
(* the request is answered 500 with the reported reason in details, and    *)
(* no team invite, user lookup, client invite or welcome post is issued.   *)
(***************************************************************************)
C10_CreationFailed(r) ==
    /\ callsOf(r, "conversations.create") # {}
    /\ firstCreate(r).result \notin {"pending", "ok", "name_taken"}

C10_CreationErrorAborts ==
    \A r \in Reqs :
        C10_CreationFailed(r) =>
            /\ spc[r] = "done"
            /\ sres[r].status = 500
            /\ ~sres[r].success
            /\ sres[r].details =
                  <<"Slack API error: ", firstCreate(r).result>>
            /\ bestEffortCalls(r) = {}
            /\ callsOf(r, "conversations.list") = {}
            /\ Cardinality(callsOf(r, "conversations.create")) = 1
            /\ channelId[r] = 0

C10_Witness ==
    /\ C10_CreationFailed("r1")
    /\ firstCreate("r1").result = "restricted_action"
    /\ sres["r1"].status = 500

(***************************************************************************)
(* C11: channel resolution (create, list, suffixed create) is the only     *)
(* step whose failure fails a request that passed input validation.        *)
(* As stated this is refuted by the auth.test precheck; the amended        *)
(* statement adds that precheck to the fatal steps.                        *)
(***************************************************************************)
lastCall(r) == calls[r][Len(calls[r])]

failed(call) == call.result \notin {"pending", "ok", "user", "nouser"}

resolutionOps == {"conversations.create", "conversations.list"}

C11_FailureResponse(r) ==
    /\ ~missingRequiredField(sreq[r])
    /\ sres[r].status \notin {0, 200}

C11_OnlyResolutionIsFatal ==
    \A r \in Reqs :
        C11_FailureResponse(r) =>
            /\ lastCall(r).op \in resolutionOps
            /\ failed(lastCall(r))

C11_OnlyPrecheckAndResolutionAreFatal ==
    \A r \in Reqs :
        /\ C11_FailureResponse(r) =>
              /\ sres[r].status = 500
              /\ lastCall(r).op \in resolutionOps \cup {"auth.test"}
              /\ failed(lastCall(r))
              /\ bestEffortCalls(r) = {}
              /\ channelId[r] = 0
        /\ (spc[r] = "done" /\ ~missingRequiredField(sreq[r])
              /\ \A i \in 1..Len(calls[r]) :
                    failed(calls[r][i]) =>
                        \/ calls[r][i].op \notin resolutionOps \cup {"auth.test"}
                        \/ /\ i = 2
                           /\ calls[r][i].result = "name_taken")
              => sres[r].status = 200

C11_Witness ==
    /\ C11_FailureResponse("r1")
    /\ lastCall("r1").op = "conversations.list"
    /\ failed(lastCall("r1"))

(***************************************************************************)
(* C12: the channelName of a success response is the name of the channel   *)
(* resolved upstream (the sanitized, possibly suffixed name), not the      *)
(* requested channelName.                                                  *)
(***************************************************************************)
namesOfId(id) == {c.name : c \in {x \in channels : x.id = id}}

C12_ResponseCarriesResolvedName ==
    \A r \in Reqs :
        sres[r].status = 200 =>
            sres[r].channelName \in namesOfId(sres[r].channelId)

(***************************************************************************)
(* C14: a request that supplies channelName but omits userEmail passes     *)
(* input validation and proceeds to provisioning.  The code requires both  *)
(* fields; the amended statement is that such a request is answered 400    *)
(* and no upstream call is made.                                           *)
(***************************************************************************)
C14_EmailOmitted(r) ==
    /\ sreq[r].channelName # <<>>
    /\ sreq[r].userEmail = ""
    /\ spc[r] \notin {"idle", "start"}

mentions(text, word) == \E i \in 1..Len(text) : text[i] = word

C15_MissingField(r) ==
    /\ spc[r] \notin {"idle", "start"}
    /\ sreq[r].channelName = <<>> \/ sreq[r].userEmail = ""

C15_MissingFieldRejected ==
    \A r \in Reqs :
        C15_MissingField(r) =>
            /\ spc[r] = "done"
            /\ sres[r].status = 400
            /\ sres[r].error # <<>>
            /\ sreq[r].channelName = <<>> => mentions(sres[r].error, "channelName")
            /\ sreq[r].userEmail = "" => mentions(sres[r].error, "userEmail")
            /\ Len(calls[r]) = 0

C15_Witness ==
    /\ C15_MissingField("r1")
    /\ sreq["r1"].channelName # <<>>
    /\ sres["r1"].status = 400
    /\ mentions(sres["r1"].error, "userEmail")

(***************************************************************************)
(* C20: a second creation call is issued only after the first creation     *)
(* failed with name_taken and the listing held no channel with the         *)
(* sanitized name; its name is the sanitized name, '-', and the last four  *)
(* digits of the Unix time; there are at most two creation calls per       *)
(* request; a failure of the second creation or of the listing is fatal.   *)
(***************************************************************************)
lastFourDigits(n) ==
    << DigitChars[((n \div 1000) % 10) + 1], DigitChars[((n \div 100) % 10) + 1],
       DigitChars[((n \div 10) % 10) + 1], DigitChars[(n % 10) + 1] >>

creates(r) == callsOf(r, "conversations.create")

C20_SuffixedRetry ==
    \A r \in Reqs :
        /\ Cardinality(creates(r)) <= 2
        /\ \A j \in creates(r) :
              j # 2 =>
                  /\ j = 4
                  /\ calls[r][2].op = "conversations.create"
                  /\ calls[r][2].result = "name_taken"
                  /\ calls[r][3].op = "conversations.list"
                  /\ calls[r][3].result = "ok"
                  /\ \A c \in calls[r][3].listing :
                        c.name # sanitizedChannelName(sreq[r].channelName)
                  /\ \E t \in ClockSeconds :
                        calls[r][j].name =
                            sanitizedChannelName(sreq[r].channelName)
                                \o <<"-">> \o lastFourDigits(t)
                  /\ failed(calls[r][j]) =>
                        /\ spc[r] = "done"
                        /\ sres[r].status = 500
                        /\ Len(calls[r]) = 4
        /\ \A i \in callsOf(r, "conversations.list") :
              failed(calls[r][i]) =>
                  /\ spc[r] = "done"
                  /\ sres[r].status = 500
                  /\ Len(calls[r]) = i

C20_Witness ==
    /\ Cardinality(creates("r1")) = 2
    /\ calls["r1"][4].name = <<"a", "c", "m", "e", "-", "c", "o", "-", "9", "9", "9", "9">>
    /\ calls["r1"][4].result = "ok"
    /\ spc["r1"] = "done"
    /\ sres["r1"].status = 200

(***************************************************************************)
(* C16: with price gating enabled, upstream success with the domain        *)
(* reported available but a registration price that cannot be parsed or    *)
(* exceeds the ceiling (15.00) yields available = false with reason        *)
(* "price".                                                                *)
(***************************************************************************)
C16_RejectedPrices ==
    {<<"2", "0", ".", "0", "0">>,
     <<"1", "5", ".", "0", "1">>,
     <<"1", "6">>,
     <<"N", "/", "A">>,
     <<>>,
     <<"a", "b", "c">>,
     <<"1", ".", "5", ".", "0">>,
     <<"1", "5", ".", "0", "0", "1">>,
     <<"$", "9", ".", "9", "9">>,
     <<"9", ".">>}

C16_GatedCase ==
    /\ variant = "priceGate"
    /\ dpc = "done"
    /\ UpstreamSuccess
    /\ registrarReply.available = "1" \/ registrarReply.avail = "yes"
    /\ priceText(registrarReply) \in C16_RejectedPrices

C16_PriceGateForcesUnavailable ==
    C16_GatedCase =>
        /\ dres.status = 200
        /\ dres.available = FALSE
        /\ "reason" \in dres.keys
        /\ dres.reason = "price"

C16_Witness ==
    /\ C16_GatedCase
    /\ priceText(registrarReply) = <<"2", "0", ".", "0", "0">>
    /\ dres.reason = "price"

(***************************************************************************)
(* C17: the availability evaluation normalizes both upstream shapes: a     *)
(* flat available flag "1" and a nested response.avail "yes" each yield    *)
(* available = true.                                                       *)
(***************************************************************************)
C17_BothShapesNormalized ==
    (/\ dpc = "done"
     /\ UpstreamSuccess
     /\ registrarReply.available = "1" \/ registrarReply.avail = "yes")
        => /\ dres.status = 200
           /\ dres.available = TRUE

(***************************************************************************)
(* C13: the sanitized name is the lowercased input with every character    *)
(* outside [a-z0-9_-] replaced by '-', truncated to at most 80             *)
(* characters; it holds only lowercase alphanumerics, '-' and '_'.         *)
(***************************************************************************)
C13_Expected(c) ==
    IF \E k \in 1..26 : UpperCase[k] = c
    THEN LowerCase[CHOOSE k \in 1..26 : UpperCase[k] = c]
    ELSE IF \/ \E k \in 1..26 : LowerCase[k] = c
            \/ c \in {"0", "1", "2", "3", "4", "5", "6", "7", "8", "9"}
            \/ c \in {"-", "_"}
    THEN c
    ELSE "-"

C13_SanitizedAsSpecified ==
    (sanDone /\ sanIn # <<>>) =>
        /\ Len(sanOut) = (IF Len(sanIn) <= 80 THEN Len(sanIn) ELSE 80)
        /\ \A i \in 1..Len(sanOut) :
              /\ sanOut[i] = C13_Expected(sanIn[i])
              /\ sanOut[i] \in AllowedChars
              /\ \A k \in 1..26 : sanOut[i] # UpperCase[k]
              /\ sanOut[i] # " "

C13_Witness ==
    /\ sanDone
    /\ Len(sanIn) > 80
    /\ Len(sanOut) = 80
    /\ \E i \in 1..Len(sanIn) : sanIn[i] = " "

(***************************************************************************)
(* C18: GET /find-user-id with an email that belongs to no user is         *)
(* answered 404 {status: 'error', message: 'User not found'}, however the  *)
(* upstream lookup reports that the user was not found.                    *)
(***************************************************************************)
C18_UnknownEmailIs404 ==
    (fpc = "done" /\ flookup \in {"nouser", "users_not_found"}) =>
        /\ fres.status = 404
        /\ fres.bodyStatus = "error"
        /\ fres.message = "User not found"

(***************************************************************************)
(* C19: no handler modifies the team roster, and the response to a request *)
(* is determined by the request's own input and the replies to its own     *)
(* calls, whatever other requests ran before it or concurrently with it.   *)
(***************************************************************************)
\* what the platform replied to a request's calls
C19_Replies(r) ==
    [i \in 1..Len(calls[r]) |->
        [op |-> calls[r][i].op, result |-> calls[r][i].result,
         id |-> calls[r][i].id, listing |-> calls[r][i].listing]]

\* the response as a function of the request and of the replies to it
C19_Expected(req, replies) ==
    IF req.channelName = <<>> \/ req.userEmail = ""
    THEN [status |-> 400, channelId |-> 0, channelName |-> <<>>]
    ELSE IF \E i \in 1..Len(replies) :
                /\ replies[i].op \in {"auth.test", "conversations.create",
                                      "conversations.list"}
                /\ replies[i].result \notin {"ok", "pending"}
                /\ ~(i = 2 /\ replies[i].result = "name_taken")
    THEN [status |-> 500, channelId |-> 0, channelName |-> <<>>]
    ELSE [status |-> 200,
          channelId |-> CHOOSE id \in 1..(Cardinality(channels) + 1) :
                            \E i \in 1..Len(replies) :
                                /\ replies[i].op \in {"conversations.create",
                                                      "conversations.list"}
                                /\ replies[i].id = id,
          channelName |-> req.channelName]

C19_ResponseIsOwn ==
    /\ \A r \in Reqs :
          spc[r] = "done" =>
              LET expected == C19_Expected(sreq[r], C19_Replies(r))
              IN  /\ sres[r].status = expected.status
                  /\ sres[r].channelId = expected.channelId
                  /\ sres[r].channelName = expected.channelName
    /\ \A r, q \in Reqs :
          (/\ spc[r] = "done" /\ spc[q] = "done"
           /\ sreq[r] = sreq[q]
           /\ C19_Replies(r) = C19_Replies(q)) => sres[r] = sres[q]

C19_HandlersAreIndependent ==
    /\ []C19_ResponseIsOwn
    /\ [][TEAM_MEMBERS' = TEAM_MEMBERS]_vars

\* both requests answered, each with the channel its own calls resolved
C19_Witness ==
    /\ spc["r1"] = "done" /\ spc["r2"] = "done"
    /\ sres["r1"].status = 200 /\ sres["r2"].status = 200
    /\ sres["r1"].channelId # sres["r2"].channelId
    /\ sres["r1"].channelId < sres["r2"].channelId
    /\ TEAM_MEMBERS # <<>>

(***************************************************************************)
(* C21: within one request the upstream calls occur in the order channel   *)
(* resolution, team invite (all roster ids, to the resolved channel),      *)
(* client lookup, client invite, welcome post, response; no invite or post *)
(* precedes the resolution of a channel id, and the welcome post is        *)
(* attempted exactly once for every request whose channel was resolved.    *)
(***************************************************************************)
C21_Stage(r, i) ==
    LET c == calls[r][i]
    IN  IF c.op = "auth.test" THEN 0
        ELSE IF c.op \in resolutionOps THEN 1
        ELSE IF c.op = "conversations.invite" /\ c.users # <<ClientUserId>> THEN 2
        ELSE IF c.op = "users.lookupByEmail" THEN 3
        ELSE IF c.op = "conversations.invite" THEN 4
        ELSE 5

posts(r) == callsOf(r, "chat.postMessage")

C21_FixedOrder ==
    \A r \in Reqs :
        /\ \A i, j \in 1..Len(calls[r]) :
              i < j => /\ C21_Stage(r, i) <= C21_Stage(r, j)
                       /\ C21_Stage(r, i) >= 2 => C21_Stage(r, i) < C21_Stage(r, j)
        /\ \A i \in 1..Len(calls[r]) :
              C21_Stage(r, i) >= 2 =>
                  /\ \E k \in 1..(i - 1) : calls[r][k].id # 0
                  /\ channelId[r] \in resolvedIds(r)
                  /\ C21_Stage(r, i) # 3 => calls[r][i].channel = channelId[r]
                  /\ C21_Stage(r, i) = 2 => calls[r][i].users = TEAM_MEMBERS
                  /\ C21_Stage(r, i) = 4 =>
                        /\ calls[r][i - 1].op = "users.lookupByEmail"
                        /\ calls[r][i - 1].result = "user"
                  /\ (C21_Stage(r, i) >= 3 /\ TEAM_MEMBERS # <<>>) =>
                        teamInvites(r) # {}
                  /\ C21_Stage(r, i) = 5 =>
                        callsOf(r, "users.lookupByEmail") # {}
        /\ Cardinality(posts(r)) <= 1
        /\ spc[r] = "done" =>
              /\ \A i \in 1..Len(calls[r]) : calls[r][i].result # "pending"
              /\ resolvedIds(r) # {} => Cardinality(posts(r)) = 1
        /\ sres[r].status # 0 => spc[r] = "done"

C21_Witness ==
    /\ spc["r1"] = "done"
    /\ Len(calls["r1"]) = 6
    /\ \E i \in teamInvites("r1") : failed(calls["r1"][i])
    /\ \E i \in clientInvites("r1") : failed(calls["r1"][i])
    /\ Cardinality(posts("r1")) = 1

(***************************************************************************)
(* C22: the welcome message always carries a non-blank business name,      *)
(* contact name and email; each is the placeholder 'Not provided' when the *)
(* request does not supply it, never blank or 'undefined'.                 *)
(***************************************************************************)
C22_Blank == {"", " ", "undefined"}

C22_WelcomeMessageNeverBlank ==
    \A r \in Reqs :
        \A i \in posts(r) :
            LET text == calls[r][i].text
            IN  /\ text.business \notin C22_Blank
                /\ text.contact \notin C22_Blank
                /\ text.email \notin C22_Blank
                /\ sreq[r].businessName = "" => text.business = "Not provided"
                /\ sreq[r].clientName = "" => text.contact = "Not provided"
                /\ sreq[r].userEmail = "" => text.email = "Not provided"

(***************************************************************************)
(* C23: the registrar is called at most once per /api/check-domain         *)
(* request, whether the call succeeds, returns a failure status or fails   *)
(* at transport level.                                                     *)
(***************************************************************************)
C23_AtMostOneRegistrarCall ==
    /\ registrarCalls <= 1
    /\ dpc = "awaitRegistrar" => registrarCalls = 1
    /\ registrarReply # NoReply => registrarCalls = 1

C23_Witness ==
    /\ dpc = "done"
    /\ TransportFailure(registrarReply)
    /\ registrarCalls = 1
    /\ dres.status = 500

(***************************************************************************)
(* C24: every /api/check-domain request is answered, for every JSON body,  *)
(* including a missing domainName and truthy non-string values: a handler  *)
(* that has finished has sent a response.                                  *)
(***************************************************************************)
C24_EveryRequestAnswered ==
    dpc \notin {"idle", "start", "awaitRegistrar"} => dres.status # 0

(***************************************************************************)
(* C25: a 500 response implies that the request created no channel; a      *)
(* request one of whose creation calls succeeded ends with a success       *)
(* response carrying that channel's id.                                    *)
(***************************************************************************)
created(r) == {i \in creates(r) : calls[r][i].result = "ok"}

C25_NoOrphanChannel ==
    \A r \in Reqs :
        spc[r] = "done" =>
            /\ sres[r].status = 500 => created(r) = {}
            /\ \A i \in created(r) :
                  /\ sres[r].status = 200
                  /\ sres[r].success
                  /\ sres[r].channelId = calls[r][i].id
                  /\ \E c \in channels :
                        c.id = calls[r][i].id /\ c.name = calls[r][i].name

C25_Witness ==
    /\ spc["r1"] = "done"
    /\ 4 \in created("r1")
    /\ \E i \in teamInvites("r1") : failed(calls["r1"][i])
    /\ \E i \in posts("r1") : failed(calls["r1"][i])
    /\ sres["r1"].status = 200

(***************************************************************************)
(* C29: every channel name passed to a creation call, the suffixed name of *)
(* the retry included, holds only lowercase alphanumerics, '-' and '_' and *)
(* is at most 80 characters long.                                          *)
(***************************************************************************)
C29_CreatedNamesAreValid ==
    \A r \in Reqs :
        \A i \in creates(r) :
            /\ Len(calls[r][i].name) <= 80
            /\ \A k \in 1..Len(calls[r][i].name) :
                  calls[r][i].name[k] \in AllowedChars

(***************************************************************************)
(* C26: in the part_003 variant, whenever the channel creation succeeds    *)
(* the handler runs the lookup/invite and welcome-post steps and responds  *)
(* success with the created channel's id; a 500 response implies that the  *)
(* request created no channel.                                             *)
(***************************************************************************)
C26_CreatedChannelIsReported ==
    \A r \in Reqs :
        spc[r] = "done" =>
            /\ sres[r].status = 500 => created(r) = {}
            /\ \A i \in created(r) :
                  /\ sres[r].status = 200
                  /\ sres[r].channelId = calls[r][i].id
                  /\ callsOf(r, "users.lookupByEmail") # {}
                  /\ posts(r) # {}

(***************************************************************************)
(* C27: two concurrent server.js requests with the same sanitized channel  *)
(* name, the name being free before them and the calls of channel          *)
(* resolution not failing for another reason than name_taken, both succeed *)
(* with the same channelId; exactly one channel is created, none suffixed. *)
(***************************************************************************)
C27_Raced ==
    /\ \A r \in Reqs :
          /\ spc[r] = "done"
          /\ ~missingRequiredField(sreq[r])
          /\ \A i \in 1..Len(calls[r]) :
                (calls[r][i].op \in resolutionOps \cup {"auth.test"})
                    => calls[r][i].result \in {"ok", "name_taken"}
    /\ sanitizedChannelName(sreq["r1"].channelName)
          = sanitizedChannelName(sreq["r2"].channelName)
    /\ \A c \in channels :
          \E r \in Reqs : \E i \in created(r) : calls[r][i].id = c.id

C28_GetOrCreateIsRaceFree ==
    /\ \A r \in Reqs :
          /\ (spc[r] = "returned" /\ existing(r, calls[r][1].listing) # {}) =>
                /\ creates(r) = {}
                /\ \E c \in calls[r][1].listing :
                      c.name = sreq[r].channelName /\ c.id = channelId[r]
          /\ (spc[r] = "thrown" /\ lastCall(r).result = "name_taken") =>
                \A q \in Reqs \ {r} : \A i \in created(q) :
                    calls[q][i].name # sreq[r].channelName
    /\ (/\ sreq["r1"].channelName = sreq["r2"].channelName
        /\ spc["r1"] = "returned"
        /\ spc["r2"] = "returned") => channelId["r1"] = channelId["r2"]

====
